---- MODULE Spec2Model ----
(***************************************************************************)
(* TeleopAgent (manimo/teleoperation/teleop_agent.py): the reference-pose  *)
(* state of the agent and its get_action transform.                        *)
(*                                                                         *)
(* Numbers.  Positions are integer vectors in a fixed length unit; gains   *)
(* are tenths (GainScale), so 0.5 is 5 and 0.2 is 2, and the input sets    *)
(* keep every gain product exact.                                          *)
(*                                                                         *)
(* Quaternions.  The rotations range over the dicyclic group of order      *)
(* 4*AngleUnits, the unit quaternions                                      *)
(*      a^k * x^f,   a = cos(pi/n) + sin(pi/n) k,   x = i,                 *)
(* with n = AngleUnits, k in 0..2n-1, f in 0..1, written <<k, f>>.         *)
(* a^k turns by k angle units (one unit = 360/n degrees) about z; x is the *)
(* half turn about x.  x*a = a^-1*x and x*x = a^n = -1, so the Hamilton    *)
(* product on these quaternions is exact index arithmetic and does not     *)
(* commute.  <<k, f>> and <<k + n, f>> are q and -q: the same rotation.    *)
(*                                                                         *)
(* None is <<>>; an optional value v is <<v>>.                             *)
(***************************************************************************)
EXTENDS Integers, Sequences, FiniteSets, TLC

VARIABLES robot_origin, vr_origin, init_ref,
          use_gripper, disable_rot, position_mask,
          call, ret, raised, paired, recaptured,
          qt, qs, qd, qr, qpc

vars == <<robot_origin, vr_origin, init_ref, use_gripper, disable_rot,
          position_mask, call, ret, raised, paired, recaptured,
          qt, qs, qd, qr, qpc>>

agentVars == <<robot_origin, vr_origin, init_ref, use_gripper, disable_rot,
               position_mask, call, ret, raised, paired, recaptured>>

quatVars == <<qt, qs, qd, qr, qpc>>

None == <<>>

Some(v) == <<v>>

(* ------------------------------ gains ---------------------------------- *)

GainScale == 10

pos_action_gain == 5

rot_action_gain == 2

gripper_action_gain == 10

(* ---------------------------- quaternions ------------------------------ *)

AngleUnits == 20

QuatIndices == 2 * AngleUnits

Quat(k, f) == <<k % QuatIndices, f>>

Quats == {Quat(k, f) : k \in 0..(QuatIndices - 1), f \in 0..1}

QuatIdentity == Quat(0, 0)

\* -q: the other quaternion of the same rotation.
QuatNeg(q) == Quat(q[1] + AngleUnits, q[2])

SameRotation(p, q) == p = q \/ p = QuatNeg(q)

\* Rotation.__mul__: the Hamilton product p * q.
RotMul(p, q) ==
    Quat(p[1] + (IF p[2] = 1 THEN 0 - q[1] ELSE q[1])
              + (IF p[2] = 1 /\ q[2] = 1 THEN AngleUnits ELSE 0),
         (p[2] + q[2]) % 2)

\* Rotation.inv: the conjugate.
RotInv(q) ==
    IF q[2] = 0 THEN Quat(QuatIndices - q[1], 0)
                ELSE Quat(q[1] + AngleUnits, 1)

\* quat_diff(target, source): R(target) * R(source).inv().
quat_diff_no_inv(target, source) == RotMul(target, source)

quat_diff(target, source) == RotMul(target, RotInv(source))

\* quat_add(target, source): R(target) * R(source).
quat_add(target, source) == RotMul(target, source)

\* An angle of k units brought into (-180, 180] degrees.
SignedAngle(k) ==
    IF k % AngleUnits > AngleUnits \div 2 THEN (k % AngleUnits) - AngleUnits
                                          ELSE k % AngleUnits

\* quat_to_euler: as_euler('xyz'), the angles <<about x, about y, about z>>
\* of R = Rz * Ry * Rx.  a^k is Rz(k); a^k * x is Rz(k) * Rx(half turn).
quat_to_euler(quat) ==
    <<IF quat[2] = 1 THEN AngleUnits \div 2 ELSE 0, 0, SignedAngle(quat[1])>>

\* euler_to_quat: from_euler('xyz', euler).as_quat().  Exact on the group
\* for no turn or a half turn about x, no turn about y, any turn about z.
euler_to_quat(euler) ==
    CASE euler[2] = 0 /\ euler[1] = 0 -> Quat(euler[3], 0)
      [] euler[2] = 0 /\ euler[1] = AngleUnits \div 2 -> Quat(euler[3], 1)

(* ------------------------------ vectors -------------------------------- *)

VecSub(a, b) == [i \in 1..3 |-> a[i] - b[i]]

VecAdd(a, b) == [i \in 1..3 |-> a[i] + b[i]]

(* ------------------------- get_action, the steps ----------------------- *)

\* line 100: target_pos_offset = vr_pos - self.vr_origin['pos']
target_pos_offset(vr_pos, origin_pos) == VecSub(vr_pos, origin_pos)

\* line 109: pos_action *= self.pos_action_gain
ScalePos(pos_action) ==
    [i \in 1..3 |-> (pos_action[i] * pos_action_gain) \div GainScale]

\* line 110: euler_action *= self.rot_action_gain
ScaleEuler(euler_action) ==
    [i \in 1..3 |-> (euler_action[i] * rot_action_gain) \div GainScale]

\* lines 104-113: the scaled relative rotation of the controller.
ScaledRotation(vr_quat, origin_quat) ==
    euler_to_quat(ScaleEuler(quat_to_euler(quat_diff(vr_quat, origin_quat))))

\* lines 116-119: the option to disable rotation.
quat_action_always_rotate(disable, origin_quat, scaled) ==
    quat_add(origin_quat, scaled)

quat_action(disable, origin_quat, scaled) ==
    IF disable THEN origin_quat ELSE quat_add(origin_quat, scaled)

\* lines 124-127: one axis of the position mask.
MaskDimSwapped(v, mask_per_dim) ==
    IF v > 0 THEN v * mask_per_dim[2] ELSE v * mask_per_dim[1]

MaskDim(v, mask_per_dim) ==
    IF v > 0 THEN v * mask_per_dim[1] ELSE v * mask_per_dim[2]

\* lines 122-127: the option to apply the position mask.
ApplyPosMask(apply_pos_mask, pos_action, mask) ==
    IF apply_pos_mask
    THEN [i \in 1..3 |-> MaskDim(pos_action[i], mask[i])]
    ELSE pos_action

\* lines 100-129: the target position.
PosActionCurrentRobot(c, st, mask) ==
    VecAdd(ApplyPosMask(c.apply_pos_mask,
                        ScalePos(target_pos_offset(c.vr_pos, st.vr_origin.pos)),
                        mask),
           c.robot_pos)

PosAction(c, st, mask) ==
    VecAdd(ApplyPosMask(c.apply_pos_mask,
                        ScalePos(target_pos_offset(c.vr_pos, st.vr_origin.pos)),
                        mask),
           st.robot_origin.pos)

\* line 130: arm_action, gripper_action = np.append(pos_action, quat_action), grasp_en
ArmAction(c, st, disable, mask) ==
    PosAction(c, st, mask)
      \o quat_action(disable, st.robot_origin.quat,
                     ScaledRotation(c.vr_quat, st.vr_origin.quat))

GripperActionGated(c, gripper) == c.grasp_en /\ gripper

GripperAction(c, gripper) == c.grasp_en

\* line 132: return arm_action, gripper_action, buttons
ActionReturn(c, st, disable, mask, gripper) ==
    <<Some(ArmAction(c, st, disable, mask)), Some(GripperAction(c, gripper)),
      c.buttons>>

\* line 136: return None, None, buttons
NoActionReturn(c) == <<None, None, c.buttons>>

\* line 140: return None
InterruptReturn(c) == None

(* ----------------------- get_action, the state -------------------------- *)

\* paired (not a field of the agent): robot_origin and vr_origin were assigned
\* by the same call.  Line 95 breaks the pair, line 96 completes it.
AgentState ==
    [robot_origin |-> robot_origin, vr_origin |-> vr_origin,
     init_ref |-> init_ref, paired |-> paired]

\* lines 95-97, the first n of the three assignments.
CaptureStepsFlagFirst(n, st, c) ==
    [robot_origin |-> IF n >= 2 THEN [pos |-> c.robot_pos, quat |-> c.robot_quat]
                                ELSE st.robot_origin,
     vr_origin    |-> IF n >= 3 THEN [pos |-> c.vr_pos, quat |-> c.vr_quat]
                                ELSE st.vr_origin,
     init_ref     |-> IF n >= 1 THEN FALSE ELSE st.init_ref,
     paired       |-> IF n >= 3 THEN TRUE ELSE IF n >= 2 THEN FALSE ELSE st.paired]

CaptureSteps(n, st, c) ==
    [robot_origin |-> IF n >= 1 THEN [pos |-> c.robot_pos, quat |-> c.robot_quat]
                                ELSE st.robot_origin,
     vr_origin    |-> IF n >= 2 THEN [pos |-> c.vr_pos, quat |-> c.vr_quat]
                                ELSE st.vr_origin,
     init_ref     |-> IF n >= 3 THEN FALSE ELSE st.init_ref,
     paired       |-> IF n >= 2 THEN TRUE ELSE IF n >= 1 THEN FALSE ELSE st.paired]

\* lines 94-97: if self.init_ref: ...
UpdateReferenceAlways(n, st, c) == CaptureSteps(n, st, c)

UpdateReference(n, st, c) == IF st.init_ref THEN CaptureSteps(n, st, c) ELSE st

\* line 135: self.init_ref = True
ResetReferenceKeep(st) == st

ResetReference(st) == [st EXCEPT !.init_ref = TRUE]

\* Where a KeyboardInterrupt reaches the call:
\*   "none"          nowhere: the call returns at line 132 or 136
\*   "poll"          lines 80-88, before the try statement
\*   "try"           inside the try, before line 95 or line 135
\*   "robot_origin"  after line 95      "vr_origin"  after line 96
\*   "compute"       lines 99-132, after the reference update
\*   "reset"         after line 135
StopPoints == {"poll", "try", "robot_origin", "vr_origin", "compute", "reset"}

CanStop(stop, st, c) ==
    CASE stop \in {"poll", "try"} -> TRUE
      [] stop \in {"robot_origin", "vr_origin"} -> c.control_en /\ st.init_ref
      [] stop = "compute" -> c.control_en
      [] stop = "reset" -> ~c.control_en

\* How many of lines 95-97 have run when the call stops at `stop`.
StepsDone(stop) ==
    CASE stop = "robot_origin" -> 1
      [] stop = "vr_origin" -> 2
      [] stop \in {"compute", "none"} -> 3
      [] OTHER -> 0

\* lines 92-97 and 134-135: the agent's fields when the call stops at `stop`.
StateAfter(stop, st, c) ==
    IF stop \in {"poll", "try"} THEN st
    ELSE IF c.control_en THEN UpdateReference(StepsDone(stop), st, c)
    ELSE ResetReference(st)

\* lines 132, 136, 138-140: what the call returns.
ReturnAfter(stop, st, c, disable, mask, gripper) ==
    IF stop = "none"
    THEN IF c.control_en THEN ActionReturn(c, st, disable, mask, gripper)
                         ELSE NoActionReturn(c)
    ELSE IF stop = "poll" THEN None
    ELSE InterruptReturn(c)

\* lines 79-90 are outside the try: the interrupt reaches the caller.
RaisesAfter(stop) == stop = "poll"

(* ------------------------------ inputs --------------------------------- *)

MaxButton == 1

Buttons == 0..MaxButton

\* Controller poses: positions are even, so the position gain is exact;
\* orientations are quarter turns about z (as q and as -q), so the relative
\* turn stays short of a half turn and the rotation gain is exact.
VRPoses ==
    { [pos |-> <<0, 0, 0>>,  quat |-> Quat(0, 0)],
      [pos |-> <<2, -4, 6>>, quat |-> Quat(5, 0)],
      [pos |-> <<0, 0, 0>>,  quat |-> Quat(25, 0)] }

\* Robot observations: one orientation commutes with the turns about z, the
\* other (a half turn about x) does not.
RobotPoses ==
    { [pos |-> <<1, -1, 2>>, quat |-> Quat(0, 1)],
      [pos |-> <<0, 3, 0>>,  quat |-> Quat(3, 0)] }

UnitMask == << <<1, 1>>, <<1, 1>>, <<1, 1>> >>

SkewMask == << <<2, 0>>, <<0, 3>>, <<1, -1>> >>

\* teleop_cfg (lines 60-62): use_gripper, disable_rot, position_mask.
Configs ==
    { [use_gripper |-> FALSE, disable_rot |-> FALSE, position_mask |-> UnitMask],
      [use_gripper |-> TRUE,  disable_rot |-> TRUE,  position_mask |-> UnitMask],
      [use_gripper |-> TRUE,  disable_rot |-> FALSE, position_mask |-> SkewMask],
      [use_gripper |-> FALSE, disable_rot |-> TRUE,  position_mask |-> SkewMask] }

\* teleop.get_state() (line 80), obs (lines 82-83) and apply_pos_mask.
Calls ==
    { [control_en |-> ce, grasp_en |-> ge, vr_pos |-> v.pos, vr_quat |-> v.quat,
       buttons |-> b, robot_pos |-> r.pos, robot_quat |-> r.quat,
       apply_pos_mask |-> am, at |-> "none"] :
        ce \in BOOLEAN, ge \in BOOLEAN, v \in VRPoses, b \in Buttons,
        r \in RobotPoses, am \in BOOLEAN }

\* The calls an interrupt is tried on: an interrupted call reads neither
\* grasp_en nor apply_pos_mask.
InterruptedCalls == {c \in Calls : ~c.grasp_en /\ c.apply_pos_mask}

NoCall ==
    [control_en |-> FALSE, grasp_en |-> FALSE, vr_pos |-> None, vr_quat |-> None,
     buttons |-> 0, robot_pos |-> None, robot_quat |-> None,
     apply_pos_mask |-> FALSE, at |-> "init"]

(* --------------------------- the agent --------------------------------- *)

QuatIdle ==
    /\ qt = QuatIdentity /\ qs = QuatIdentity
    /\ qd = None /\ qr = None /\ qpc = "idle"

\* TeleopAgent.__init__
Init ==
    /\ robot_origin = [pos |-> None, quat |-> None]
    /\ vr_origin = [pos |-> None, quat |-> None]
    /\ init_ref = TRUE
    /\ \E cfg \in Configs :
          /\ use_gripper = cfg.use_gripper
          /\ disable_rot = cfg.disable_rot
          /\ position_mask = cfg.position_mask
    /\ call = NoCall
    /\ ret = None
    /\ raised = FALSE
    /\ paired = FALSE
    /\ recaptured = FALSE
    /\ QuatIdle

\* recaptured (not a field of the agent): the call is a completed enabled call
\* that directly follows a completed disabled call and replaced both poses of
\* an earlier reference.
Recaptures(c, stop, st) ==
    /\ stop = "none" /\ c.control_en
    /\ call.at = "none" /\ ~call.control_en
    /\ robot_origin.pos # None /\ vr_origin.pos # None
    /\ st.robot_origin # robot_origin /\ st.vr_origin # vr_origin

\* One call of get_action that stops at `stop`.
Run(c, stop) ==
    LET st == StateAfter(stop, AgentState, c) IN
    /\ robot_origin' = st.robot_origin
    /\ vr_origin' = st.vr_origin
    /\ init_ref' = st.init_ref
    /\ paired' = st.paired
    /\ call' = [c EXCEPT !.at = stop]
    /\ ret' = ReturnAfter(stop, st, c, disable_rot, position_mask, use_gripper)
    /\ raised' = RaisesAfter(stop)
    /\ recaptured' = Recaptures(c, stop, st)
    /\ UNCHANGED <<use_gripper, disable_rot, position_mask>>
    /\ UNCHANGED quatVars

\* TeleopAgent.get_action, run to its return statement.
GetAction == \E c \in Calls : Run(c, "none")

\* TeleopAgent.get_action with a KeyboardInterrupt arriving in it.
GetActionInterrupted ==
    \E c \in InterruptedCalls, stop \in StopPoints :
        /\ CanStop(stop, AgentState, c)
        /\ Run(c, stop)

Next == GetAction \/ GetActionInterrupted

Spec == Init /\ [][Next]_vars

(* ------------------- quat_diff and quat_add alone ---------------------- *)

AgentIdle ==
    /\ robot_origin = [pos |-> None, quat |-> None]
    /\ vr_origin = [pos |-> None, quat |-> None]
    /\ init_ref = TRUE
    /\ use_gripper = FALSE /\ disable_rot = FALSE /\ position_mask = UnitMask
    /\ call = NoCall /\ ret = None /\ raised = FALSE
    /\ paired = FALSE /\ recaptured = FALSE

InitQuat ==
    /\ AgentIdle
    /\ qt \in Quats /\ qs \in Quats
    /\ qd = None /\ qr = None /\ qpc = "diff"

\* qd = quat_diff(qt, qs)
QuatDiffStep ==
    /\ qpc = "diff"
    /\ qd' = quat_diff(qt, qs)
    /\ qpc' = "add"
    /\ UNCHANGED <<qt, qs, qr>>
    /\ UNCHANGED agentVars

\* qr = quat_add(qd, qs)
QuatAddStep ==
    /\ qpc = "add"
    /\ qr' = quat_add(qd, qs)
    /\ qpc' = "done"
    /\ UNCHANGED <<qt, qs, qd>>
    /\ UNCHANGED agentVars

NextQuat == QuatDiffStep \/ QuatAddStep

SpecQuat == InitQuat /\ [][NextQuat]_vars

(* ------------------------------ claims --------------------------------- *)

\* The last call ran to its return statement.
Returned == call.at = "none"

EnabledReturn == call.at = "none" /\ call.control_en

Interrupted == call.at \in StopPoints

RetArm == ret[1][1]

RetPos == SubSeq(RetArm, 1, 3)

RetQuat == SubSeq(RetArm, 4, 5)

CallRobotPose == [pos |-> call.robot_pos, quat |-> call.robot_quat]

CallVRPose == [pos |-> call.vr_pos, quat |-> call.vr_quat]

\* C1: a call with control_en false that runs to its return returns
\* (None, None, buttons) and leaves init_ref true, and the completed enabled
\* call that follows it takes both reference poses from its own inputs.
C1_DisableForcesRecapture ==
    [][ /\ (call'.at = "none" /\ ~call'.control_en)
            => /\ ret' = <<None, None, call'.buttons>>
               /\ ~raised'
               /\ init_ref' = TRUE
        /\ (/\ call.at = "none" /\ ~call.control_en
            /\ call'.at = "none" /\ call'.control_en)
            => /\ robot_origin' = [pos |-> call'.robot_pos, quat |-> call'.robot_quat]
               /\ vr_origin' = [pos |-> call'.vr_pos, quat |-> call'.vr_quat]
               /\ init_ref' = FALSE ]_vars

\* C1 witness: an enabled call right after a disabled one replaced both poses
\* of an earlier session's reference by its own inputs.
C1_Witness ==
    /\ recaptured
    /\ robot_origin = CallRobotPose
    /\ vr_origin = CallVRPose

\* C2: the first completed call of a run of enabled calls (at startup or after
\* a completed disabled call) captures the reference from its inputs, and no
\* enabled call made while the reference is captured changes either pose.
C2_ReferenceFixedInSession ==
    /\ [][ /\ (~init_ref /\ call'.control_en)
               => (robot_origin' = robot_origin /\ vr_origin' = vr_origin)
           /\ (/\ call.at = "init" \/ (call.at = "none" /\ ~call.control_en)
               /\ call'.at = "none" /\ call'.control_en)
               => (robot_origin' = [pos |-> call'.robot_pos, quat |-> call'.robot_quat]
                   /\ vr_origin' = [pos |-> call'.vr_pos, quat |-> call'.vr_quat]) ]_vars
    /\ [](EnabledReturn => ~init_ref)

\* C2 witness: a later call of a session, whose controller pose and robot
\* observation both differ from the reference it leaves in place.
C2_Witness ==
    /\ EnabledReturn
    /\ robot_origin.pos # call.robot_pos /\ robot_origin.quat # call.robot_quat
    /\ vr_origin.pos # call.vr_pos /\ vr_origin.quat # call.vr_quat

\* C3 (as claimed): with rotation not disabled, the returned orientation is
\* scaledRotation o robot_origin.quat, the scaled rotation on the left.
C3_ScaledRotationOnLeft ==
    (EnabledReturn /\ ~disable_rot)
        => RetQuat = quat_add(ScaledRotation(call.vr_quat, vr_origin.quat),
                              robot_origin.quat)

\* C4 (as claimed): an interrupted call does not raise and returns what a
\* disabled call returns, (None, None, buttons).
C4_InterruptReturnsNoAction ==
    Interrupted => (~raised /\ ret = <<None, None, call.buttons>>)

\* The offset of axis i as C5 states it: gain times the controller's movement
\* since the capture, scaled by the mask's positive factor when > 0 and by its
\* negative factor otherwise when masking is requested.
C5_Offset(i) ==
    LET scaled == ((call.vr_pos[i] - vr_origin.pos[i]) * pos_action_gain)
                      \div GainScale
    IN  IF ~call.apply_pos_mask THEN scaled
        ELSE IF scaled > 0 THEN scaled * position_mask[i][1]
        ELSE scaled * position_mask[i][2]

\* C5: on every completed enabled call the returned position is
\* robot_origin.pos + m(gain * (vr_pos - vr_origin.pos)).
C5_PositionFormula ==
    EnabledReturn
        => \A i \in 1..3 : RetPos[i] = robot_origin.pos[i] + C5_Offset(i)

\* C5 witness: masking with unequal factors on an offset with a positive and a
\* negative axis: (2,-4,6) * 0.5 = (1,-2,3), masked to (2,-6,3).
C5_Witness ==
    /\ EnabledReturn /\ call.apply_pos_mask /\ position_mask = SkewMask
    /\ VecSub(call.vr_pos, vr_origin.pos) = <<2, -4, 6>>
    /\ RetPos = VecAdd(robot_origin.pos, <<2, -6, 3>>)

\* C6: with disable_rot the returned orientation of every completed enabled
\* call is the captured robot origin orientation.
C6_RotationDisabled ==
    (EnabledReturn /\ disable_rot) => RetQuat = robot_origin.quat

\* C6 witness: rotation disabled, the controller turned since the capture and
\* the robot observed at another orientation than the captured one.
C6_Witness ==
    /\ EnabledReturn /\ disable_rot
    /\ ScaledRotation(call.vr_quat, vr_origin.quat) # QuatIdentity
    /\ call.robot_quat # robot_origin.quat
    /\ RetQuat = robot_origin.quat

\* C7: a completed enabled call whose controller position is the captured
\* controller origin position returns the captured robot origin position.
C7_ZeroMovement ==
    (EnabledReturn /\ call.vr_pos = vr_origin.pos) => RetPos = robot_origin.pos

\* C7 witness: a later call of a session (the controller has turned, the robot
\* has moved) at the captured controller position, masked with negative-scale
\* factors other than 1.
C7_Witness ==
    /\ EnabledReturn /\ call.vr_pos = vr_origin.pos
    /\ call.vr_quat # vr_origin.quat
    /\ call.robot_pos # robot_origin.pos
    /\ call.apply_pos_mask /\ position_mask = SkewMask
    /\ RetPos = robot_origin.pos

\* C8: quat_add(quat_diff(a, b), b) is the rotation a.
C8_DiffThenAdd == qpc = "done" => SameRotation(qr, qt)

\* C8 witness: the law applied to two rotations that do not commute.
C8_Witness ==
    /\ qpc = "done"
    /\ RotMul(qt, qs) # RotMul(qs, qt)
    /\ ~SameRotation(RotMul(qt, qs), RotMul(qs, qt))
    /\ SameRotation(qr, qt)

\* C9: a call that runs to its return returns the polled buttons, and an
\* enabled one returns grasp_en as the gripper action.
C9_Passthrough ==
    Returned => /\ ~raised
                /\ ret[3] = call.buttons
                /\ call.control_en => ret[2] = Some(call.grasp_en)

\* C9 witness: grasp_en passed through with use_gripper off, with buttons.
C9_Witness ==
    /\ EnabledReturn /\ call.grasp_en /\ ~use_gripper /\ call.buttons = 1
    /\ ret[2] = Some(TRUE) /\ ret[3] = 1

\* C10: init_ref false implies both origins are defined and were assigned by
\* the same call; a call interrupted between the two assignments leaves
\* init_ref true; every returned action was computed from such a pair.
C10_ReferencePairConsistent ==
    /\ ~init_ref => /\ robot_origin.pos # None /\ robot_origin.quat # None
                    /\ vr_origin.pos # None /\ vr_origin.quat # None
                    /\ paired
    /\ call.at = "robot_origin" => init_ref
    /\ EnabledReturn => (~init_ref /\ paired)

\* C10 witness: a call interrupted after line 95 left a robot origin of this
\* call beside a controller origin of an earlier one, with init_ref true.
C10_Witness ==
    /\ call.at = "robot_origin"
    /\ ~paired /\ init_ref
    /\ robot_origin = CallRobotPose
    /\ vr_origin.pos # None /\ vr_origin # CallVRPose

====
